---- MODULE Spec2Model ----
(***************************************************************************)
(* A model of the JIRA time tracker tray application (src/main.go).        *)
(*                                                                         *)
(* The program is a set of goroutines started by onReady:                  *)
(*   - the click loop        (main.go 274-279) running JiraMenu.check,     *)
(*   - the add-issue loop    (main.go 280-284) running addIssue,           *)
(*   - the refresh loop      (main.go 285-289) running JiraMenu.refresh,   *)
(*   - the timer loop        (main.go 196-219) handleTimer,                *)
(*   - one forwarding goroutine per menu item (main.go 60-64),             *)
(*   - the tick goroutine(s) started by Timer.start (main.go 140-150),     *)
(*   - the quit goroutine    (main.go 259-264) calling systray.Quit.       *)
(* They share the JiraMenu (issueItems, selectedKey, the RWMutex) and the  *)
(* Timer.  Every step below is one atomic access to that shared state.     *)
(*                                                                         *)
(* Issue keys are the numbers 1..NumKeys; the empty string is NoKey.       *)
(* Time is counted in whole seconds.                                       *)
(***************************************************************************)
EXTENDS Integers, Sequences, FiniteSets, TLC

\* ------------------------------------------------------------------ bounds
NumKeys == 2
MaxHalfMinutes == 2
MaxTickers == 2
MaxPending == 1

\* ---------------------------------------------------------------- constants
NoKey == 0
Keys == 1..NumKeys
\* what a read of selectedKey racing with a write may return besides the old
\* and the new value: a string header mixing the two
Torn == NumKeys + 1

\* the two goroutines that call JiraMenu.addItem
Adders == {"refresh", "add"}

\* a menu item is <<key, n>>: the n-th item created for that key
ItemIds == Keys \X (1..2)

VARIABLES
  issueItems,    \* JiraMenu.issueItems: key -> ordinal of the item stored, 0 if absent
  menuItems,     \* every item systray.AddMenuItem has created for an issue
  checked,       \* the items that carry a check mark
  fwd,           \* forwarding goroutine of each item: "none", "wait" or "send"
  selectedKey,   \* JiraMenu.selectedKey
  readers,       \* RWMutex: number of read locks held
  writer,        \* RWMutex: the goroutine holding the write lock, or "none"
  clickPc,       \* click loop position
  clickKey,      \* key received by the click loop
  everSelected,  \* history: check() has stored a key in selectedKey at least once
  adderPc,       \* position of the refresh loop and of the add-issue loop
  adderKey,      \* the issue key the loop is adding
  refreshList,   \* issues still to add in JiraMenu.refresh's loop
  refreshErr,    \* the error getIssues returned to refresh ("" is nil)
  timerPc,       \* handleTimer position
  timerStarted,  \* handleTimer's timerStarted
  startTime,     \* Timer.startTime
  d,             \* the duration Timer.stop returned
  wlKey,         \* addWorkLog's key argument
  wlMinutes,     \* addWorkLog's durationTime, in minutes
  nSubmit,       \* history: "jira worklog add" calls made for this toggle
  sessionKey,    \* history: the selection read when the session started
  timerTitle,    \* title of the timer menu item
  ticker,        \* Timer.ticker is running
  tickPending,   \* a tick waits in Timer.ticker.C
  doneClosed,    \* Timer.done is closed
  tickAlive,     \* number of live tick goroutines
  trayTitle,     \* systray title: "" or "elapsed"
  now,           \* the monotonic clock, in seconds
  alert,         \* the alert each loop is showing, "" if none
  inFlight,      \* history: clicks accepted and not yet finished, per loop
  quitPc         \* position of the quit goroutine; "exit" once main has returned

regVars == <<issueItems, menuItems>>
lockVars == <<readers, writer>>
clickVars == <<clickPc, clickKey>>
adderVars == <<adderPc, adderKey, refreshList, refreshErr>>
timerVars == <<timerPc, timerStarted, startTime, d, wlKey, wlMinutes, nSubmit,
               sessionKey, timerTitle>>
tickVars == <<ticker, tickPending, doneClosed, tickAlive, trayTitle>>
vars == <<regVars, checked, fwd, selectedKey, lockVars, clickVars, everSelected,
          adderVars, timerVars, tickVars, now, alert, inFlight, quitPc>>

Loops == {"click", "add", "refresh", "timer"}

\* ------------------------------------------------------------ the RWMutex
\* sync.RWMutex: RLock is granted while no writer holds the lock, Lock while
\* nobody holds it.  (A goroutine at a Lock step that is not enabled is a
\* goroutine blocked in Lock.)
CanRLock == writer = "none"
CanLock == writer = "none" /\ readers = 0

\* ------------------------------------------------------------ click events
\* systray hands a click to ClickedCh without blocking: a loop that is not
\* at its receive misses the click.
ReadyAlways(pc) == TRUE
Ready(pc) == pc = "recv"

Begin(l) == inFlight' = [inFlight EXCEPT ![l] = @ + 1]
End(l) == inFlight' = [inFlight EXCEPT ![l] = @ - 1]

\* the user clicks the menu item of an issue: its forwarding goroutine
\* (for range item.ClickedCh) takes the click and blocks in the send on
\* issueClickedCh.  At most MaxPending forwarders are blocked at a time.
ClickIssue(it) ==
  /\ it \in menuItems
  /\ fwd[it] = "wait"
  /\ Cardinality({x \in ItemIds : fwd[x] = "send"}) < MaxPending
  /\ fwd' = [fwd EXCEPT ![it] = "send"]
  /\ UNCHANGED <<regVars, checked, selectedKey, lockVars, clickVars, everSelected>>
  /\ UNCHANGED <<adderVars, timerVars, tickVars, now, alert, inFlight>>
  /\ UNCHANGED quitPc

\* ------------------------------------------------------------- click loop
\* for key := range menu.issueClickedCh: the rendezvous with a forwarder
ClickRecv(it) ==
  /\ it \in menuItems
  /\ fwd[it] = "send"
  /\ Ready(clickPc)
  /\ fwd' = [fwd EXCEPT ![it] = "wait"]
  /\ clickKey' = it[1]
  /\ clickPc' = "c81"
  /\ Begin("click")
  /\ UNCHANGED <<regVars, checked, selectedKey, lockVars, everSelected>>
  /\ UNCHANGED <<adderVars, timerVars, tickVars, now, alert>>
  /\ UNCHANGED quitPc

\* check, line 81: menu.selectedKey = "" (no lock held)
CheckClear ==
  /\ clickPc = "c81"
  /\ selectedKey' = NoKey
  /\ clickPc' = "c82"
  /\ UNCHANGED <<regVars, checked, fwd, lockVars, clickKey, everSelected>>
  /\ UNCHANGED <<adderVars, timerVars, tickVars, now, alert, inFlight>>
  /\ UNCHANGED quitPc

\* the items the map holds
MapItems == {<<k, issueItems[k]>> : k \in {x \in Keys : issueItems[x] # 0}}

\* check, lines 82-87: RLock, uncheck every item of the map, check the
\* item of key if the map has one
CheckedAfter(key) ==
  (checked \ MapItems) \cup
    (IF issueItems[key] # 0 THEN {<<key, issueItems[key]>>} ELSE {})

CheckMark ==
  /\ clickPc = "c82"
  /\ CanRLock
  /\ readers' = readers + 1
  /\ checked' = CheckedAfter(clickKey)
  /\ clickPc' = IF issueItems[clickKey] # 0 THEN "c88" ELSE "c90"
  /\ UNCHANGED <<regVars, fwd, selectedKey, writer, clickKey, everSelected>>
  /\ UNCHANGED <<adderVars, timerVars, tickVars, now, alert, inFlight>>
  /\ UNCHANGED quitPc

\* check, line 88: menu.selectedKey = key (under the read lock)
ItemTitle(key) == NumKeys + 1
SelectedValue(key) == key

CheckSelect ==
  /\ clickPc = "c88"
  /\ selectedKey' = SelectedValue(clickKey)
  /\ everSelected' = TRUE
  /\ clickPc' = "c90"
  /\ UNCHANGED <<regVars, checked, fwd, lockVars, clickKey>>
  /\ UNCHANGED <<adderVars, timerVars, tickVars, now, alert, inFlight>>
  /\ UNCHANGED quitPc

\* check, line 90: RUnlock, and back to the receive
CheckUnlock ==
  /\ clickPc = "c90"
  /\ readers' = readers - 1
  /\ clickPc' = "recv"
  /\ clickKey' = NoKey
  /\ End("click")
  /\ UNCHANGED <<regVars, checked, fwd, selectedKey, writer, everSelected>>
  /\ UNCHANGED <<adderVars, timerVars, tickVars, now, alert>>
  /\ UNCHANGED quitPc

\* --------------------------------------------------------------- addItem
\* isItemPresent, lines 47-52: the lookup under RLock/RUnlock
NeverPresent(key) == FALSE
isItemPresent(key) == issueItems[key] # 0

\* an answer of the tracker to "jira list": a list of distinct issues
IssueLists(K) ==
  {l \in UNION {[1..n -> K] : n \in 0..Cardinality(K)} :
     \A i, j \in DOMAIN l : l[i] = l[j] => i = j}

\* addItem has returned to its caller: refresh goes on with the next issue
\* of its loop (lines 75-77), addIssue returns (line 251) to its receive
AfterAddItem(p) ==
  IF p = "refresh" /\ Len(refreshList) > 1
  THEN /\ refreshList' = Tail(refreshList)
       /\ adderKey' = [adderKey EXCEPT ![p] = refreshList[2]]
       /\ adderPc' = [adderPc EXCEPT ![p] = "a55"]
       /\ UNCHANGED <<refreshErr, inFlight>>
  ELSE /\ refreshList' = IF p = "refresh" THEN <<>> ELSE refreshList
       /\ adderKey' = [adderKey EXCEPT ![p] = NoKey]
       /\ adderPc' = [adderPc EXCEPT ![p] = "recv"]
       /\ refreshErr' = IF p = "refresh" THEN "" ELSE refreshErr
       /\ End(p)

\* addItem, lines 55-57: return if the key is present
AddItemCheck(p) ==
  /\ adderPc[p] = "a55"
  /\ CanRLock
  /\ IF isItemPresent(adderKey[p])
     THEN AfterAddItem(p)
     ELSE /\ adderPc' = [adderPc EXCEPT ![p] = "a58"]
          /\ UNCHANGED <<adderKey, refreshList, refreshErr, inFlight>>
  /\ UNCHANGED <<regVars, checked, fwd, selectedKey, lockVars, clickVars>>
  /\ UNCHANGED <<everSelected, timerVars, tickVars, now, alert>>
  /\ UNCHANGED quitPc

\* the item AddMenuItem creates for key: the next one of that key
NewItem(key) == <<key, Cardinality({it \in menuItems : it[1] = key}) + 1>>

\* addItem, line 65: menu.issueItems[issue.Key] = item
StoreOnly(key, n) == [k \in Keys |-> IF k = key THEN n ELSE 0]
StoreItem(key, n) == [issueItems EXCEPT ![key] = n]

\* addItem, lines 58-65: Lock, create the menu item (unchecked), start its
\* forwarding goroutine, store the item in the map
AddItemStore(p) ==
  /\ adderPc[p] = "a58"
  /\ CanLock
  /\ writer' = p
  /\ menuItems' = menuItems \cup {NewItem(adderKey[p])}
  /\ fwd' = [fwd EXCEPT ![NewItem(adderKey[p])] = "wait"]
  /\ issueItems' = StoreItem(adderKey[p], NewItem(adderKey[p])[2])
  /\ adderPc' = [adderPc EXCEPT ![p] = "a66"]
  /\ UNCHANGED <<checked, selectedKey, readers, clickVars, everSelected>>
  /\ UNCHANGED <<adderKey, refreshList, refreshErr>>
  /\ UNCHANGED <<timerVars, tickVars, now, alert, inFlight>>
  /\ UNCHANGED quitPc

\* addItem, line 66: Unlock and return
AddItemKeepLock(p) ==
  /\ adderPc[p] = "a66"
  /\ UNCHANGED writer
  /\ AfterAddItem(p)
  /\ UNCHANGED <<regVars, checked, fwd, selectedKey, readers, clickVars>>
  /\ UNCHANGED <<everSelected, timerVars, tickVars, now, alert>>
  /\ UNCHANGED quitPc

AddItemUnlock(p) ==
  /\ adderPc[p] = "a66"
  /\ writer' = "none"
  /\ AfterAddItem(p)
  /\ UNCHANGED <<regVars, checked, fwd, selectedKey, readers, clickVars>>
  /\ UNCHANGED <<everSelected, timerVars, tickVars, now, alert>>
  /\ UNCHANGED quitPc

\* ---------------------------------------------------------- refresh loop
\* for range refreshItem.ClickedCh: menu.refresh() calls getIssues
RefreshRecv ==
  /\ Ready(adderPc["refresh"])
  /\ adderPc' = [adderPc EXCEPT !["refresh"] = "r70"]
  /\ Begin("refresh")
  /\ UNCHANGED <<regVars, checked, fwd, selectedKey, lockVars, clickVars>>
  /\ UNCHANGED <<everSelected, adderKey, refreshList, refreshErr>>
  /\ UNCHANGED <<timerVars, tickVars, now, alert>>
  /\ UNCHANGED quitPc

\* getIssues returns, lines 70-73 and 94-110: a failed "jira login" or
\* "jira list" gives an error and no issues; json.Unmarshal gives the list
\* and nil, or an error with the issues it could decode.  refresh logs the
\* error and goes on with the issues it got.
ListErrors == {"could not login", "could not list assigned issues"}
DecodeError == "json: cannot unmarshal"

GetIssues(l, e) ==
  /\ adderPc["refresh"] = "r70"
  /\ e \in ListErrors => l = <<>>
  /\ refreshList' = l
  /\ refreshErr' = e
  /\ adderPc' = [adderPc EXCEPT !["refresh"] = "r75"]
  /\ UNCHANGED <<regVars, checked, fwd, selectedKey, lockVars, clickVars>>
  /\ UNCHANGED <<everSelected, adderKey, timerVars, tickVars, now, alert, inFlight>>
  /\ UNCHANGED quitPc

\* refresh, line 75: enter the loop over the issues, or return
RefreshLoop ==
  /\ adderPc["refresh"] = "r75"
  /\ IF refreshList = <<>>
     THEN /\ adderPc' = [adderPc EXCEPT !["refresh"] = "recv"]
          /\ refreshErr' = ""
          /\ End("refresh")
          /\ UNCHANGED <<adderKey, refreshList>>
     ELSE /\ adderPc' = [adderPc EXCEPT !["refresh"] = "a55"]
          /\ adderKey' = [adderKey EXCEPT !["refresh"] = refreshList[1]]
          /\ UNCHANGED <<refreshList, refreshErr, inFlight>>
  /\ UNCHANGED <<regVars, checked, fwd, selectedKey, lockVars, clickVars>>
  /\ UNCHANGED <<everSelected, timerVars, tickVars, now, alert>>
  /\ UNCHANGED quitPc

\* -------------------------------------------------------- add-issue loop
\* for range addItem.ClickedCh: addIssue opens the "Issue Key?" dialog
AddRecv ==
  /\ Ready(adderPc["add"])
  /\ adderPc' = [adderPc EXCEPT !["add"] = "d222"]
  /\ Begin("add")
  /\ UNCHANGED <<regVars, checked, fwd, selectedKey, lockVars, clickVars>>
  /\ UNCHANGED <<everSelected, adderKey, refreshList, refreshErr>>
  /\ UNCHANGED <<timerVars, tickVars, now, alert>>
  /\ UNCHANGED quitPc

\* addIssue, lines 222-228: the dialog fails or is cancelled (key = NoKey),
\* or the user enters a key
AddDialog(key) ==
  /\ adderPc["add"] = "d222"
  /\ IF key = NoKey
     THEN /\ adderPc' = [adderPc EXCEPT !["add"] = "recv"]
          /\ End("add")
          /\ UNCHANGED adderKey
     ELSE /\ adderPc' = [adderPc EXCEPT !["add"] = "d230"]
          /\ adderKey' = [adderKey EXCEPT !["add"] = key]
          /\ UNCHANGED inFlight
  /\ UNCHANGED <<regVars, checked, fwd, selectedKey, lockVars, clickVars>>
  /\ UNCHANGED <<everSelected, refreshList, refreshErr>>
  /\ UNCHANGED <<timerVars, tickVars, now, alert>>
  /\ UNCHANGED quitPc

\* addIssue, lines 230-233: a key already present is reported
AddPresent ==
  /\ adderPc["add"] = "d230"
  /\ CanRLock
  /\ IF isItemPresent(adderKey["add"])
     THEN /\ adderPc' = [adderPc EXCEPT !["add"] = "alert"]
          /\ alert' = [alert EXCEPT !["add"] = "Issue already there!"]
     ELSE /\ adderPc' = [adderPc EXCEPT !["add"] = "d235"]
          /\ UNCHANGED alert
  /\ UNCHANGED <<regVars, checked, fwd, selectedKey, lockVars, clickVars>>
  /\ UNCHANGED <<everSelected, adderKey, refreshList, refreshErr>>
  /\ UNCHANGED <<timerVars, tickVars, now, inFlight>>
  /\ UNCHANGED quitPc

\* addIssue, lines 235-249: "jira login" and "jira view".  A failed login
\* returns silently (line 237), a failed view or an unreadable answer is
\* reported, a good answer goes on to addItem (line 251)
ViewOutcomes == {"login failed", "view failed", "bad json", "ok"}

AddView(r) ==
  /\ adderPc["add"] = "d235"
  /\ adderPc' = [adderPc EXCEPT !["add"] =
        CASE r = "login failed" -> "d237"
          [] r = "ok" -> "a55"
          [] OTHER -> "alert"]
  /\ alert' = [alert EXCEPT !["add"] =
        CASE r = "view failed" -> "Could not find that issue!"
          [] r = "bad json" -> "Failed to read issue info.  Are you sure it exists?"
          [] OTHER -> ""]
  /\ UNCHANGED <<regVars, checked, fwd, selectedKey, lockVars, clickVars>>
  /\ UNCHANGED <<everSelected, adderKey, refreshList, refreshErr>>
  /\ UNCHANGED <<timerVars, tickVars, now, inFlight>>
  /\ UNCHANGED quitPc

\* addIssue returns: after the failed login (line 237), or when the user
\* dismisses the alert (lines 231-232, 241-242, 247-248)
AddReturn ==
  /\ adderPc["add"] \in {"d237", "alert"}
  /\ adderPc' = [adderPc EXCEPT !["add"] = "recv"]
  /\ adderKey' = [adderKey EXCEPT !["add"] = NoKey]
  /\ alert' = [alert EXCEPT !["add"] = ""]
  /\ End("add")
  /\ UNCHANGED <<regVars, checked, fwd, selectedKey, lockVars, clickVars>>
  /\ UNCHANGED <<everSelected, refreshList, refreshErr>>
  /\ UNCHANGED <<timerVars, tickVars, now>>
  /\ UNCHANGED quitPc

\* ------------------------------------------------------------------ Timer
\* what a read of menu.selectedKey returns.  handleTimer reads it with no
\* lock; check writes it with no lock (line 81) and under the read lock
\* (line 88), which excludes no reader.  A read made while such a write is
\* about to happen races with it: besides the value before the write (the
\* read comes first) and the value after it (the write step comes first) it
\* may return a mix of the two string headers.
RaceWith(new) == IF new = selectedKey THEN {} ELSE {Torn}

SelReads ==
  {selectedKey} \cup
    (CASE clickPc = "c81" -> RaceWith(NoKey)
       [] clickPc = "c88" -> RaceWith(clickKey)
       [] OTHER -> {})

\* int(d.Round(time.Minute).Minutes()), line 177: Duration.Round rounds to
\* the nearest minute, halfway values away from zero
TruncMinutes(dur) == dur \div 60
RoundMinutes(dur) == (dur + 30) \div 60

TooShort == "Cannot record a time log of < 1 minute"

\* the user clicks the timer item.  Running (lines 200-201): timer.stop()
\* takes the elapsed time, stops the ticker and closes done (lines 154-156).
\* Idle (line 209): go on to the selection test.
TimerRecv ==
  /\ Ready(timerPc)
  /\ Begin("timer")
  /\ IF timerStarted
     THEN /\ d' = now - startTime
          /\ ticker' = FALSE
          /\ doneClosed' = TRUE
          /\ timerPc' = "s157"
     ELSE /\ timerPc' = "t210"
          /\ UNCHANGED <<d, ticker, doneClosed>>
  /\ UNCHANGED <<timerStarted, startTime, wlKey, wlMinutes, nSubmit, sessionKey>>
  /\ UNCHANGED <<timerTitle, tickPending, tickAlive, trayTitle>>
  /\ UNCHANGED <<regVars, checked, fwd, selectedKey, lockVars, clickVars>>
  /\ UNCHANGED <<everSelected, adderVars, now, alert>>
  /\ UNCHANGED quitPc

\* Timer.stop, line 157: systray.SetTitle("")
StopTitle ==
  /\ timerPc = "s157"
  /\ trayTitle' = ""
  /\ timerPc' = "t203"
  /\ UNCHANGED <<timerStarted, startTime, d, wlKey, wlMinutes, nSubmit>>
  /\ UNCHANGED <<sessionKey, timerTitle, ticker, tickPending, doneClosed, tickAlive>>
  /\ UNCHANGED <<regVars, checked, fwd, selectedKey, lockVars, clickVars>>
  /\ UNCHANGED <<everSelected, adderVars, now, alert, inFlight>>
  /\ UNCHANGED quitPc

\* handleTimer, line 203: addWorkLog(menu.selectedKey, timer.startTime, d)
\* reads the selection and opens the worklog dialog (line 162)
WorkLogKey(key) ==
  /\ timerPc = "t203"
  /\ key \in SelReads
  /\ wlKey' = key
  /\ timerPc' = "w162"
  /\ UNCHANGED <<timerStarted, startTime, d, wlMinutes, nSubmit, sessionKey>>
  /\ UNCHANGED <<timerTitle, tickVars>>
  /\ UNCHANGED <<regVars, checked, fwd, selectedKey, lockVars, clickVars>>
  /\ UNCHANGED <<everSelected, adderVars, now, alert, inFlight>>
  /\ UNCHANGED quitPc

\* handleTimer, lines 207-208, and the next iteration of the loop
TimerStillStarted ==
  /\ timerStarted' = timerStarted
  /\ timerTitle' = "Start Timer"
  /\ timerPc' = "recv"
  /\ d' = 0
  /\ wlKey' = NoKey
  /\ wlMinutes' = 0
  /\ nSubmit' = 0
  /\ sessionKey' = NoKey
  /\ alert' = [alert EXCEPT !["timer"] = ""]
  /\ End("timer")

TimerIdle ==
  /\ timerStarted' = FALSE
  /\ timerTitle' = "Start Timer"
  /\ timerPc' = "recv"
  /\ d' = 0
  /\ wlKey' = NoKey
  /\ wlMinutes' = 0
  /\ nSubmit' = 0
  /\ sessionKey' = NoKey
  /\ alert' = [alert EXCEPT !["timer"] = ""]
  /\ End("timer")

\* addWorkLog returned err: handleTimer shows it (lines 204-206)
TimerErrRetry(msg) ==
  /\ alert' = [alert EXCEPT !["timer"] = msg]
  /\ timerPc' = "w162"
  /\ UNCHANGED <<timerStarted, timerTitle, d, wlKey, sessionKey, inFlight>>

TimerErr(msg) ==
  /\ alert' = [alert EXCEPT !["timer"] = msg]
  /\ timerPc' = "t205"
  /\ UNCHANGED <<timerStarted, timerTitle, d, wlKey, sessionKey, inFlight>>

DialogOutcomes == {"error", "cancel", "OK"}

\* addWorkLog, lines 162-168: the dialog fails, is cancelled or confirmed
WorkLogDialog(r) ==
  /\ timerPc = "w162"
  /\ CASE r = "error" ->
            TimerErr("could not ask for log messge") /\ UNCHANGED <<wlMinutes, nSubmit>>
       [] r = "cancel" -> TimerIdle
       [] OTHER ->
            /\ timerPc' = "w171"
            /\ UNCHANGED <<timerStarted, timerTitle, d, wlKey, wlMinutes, nSubmit>>
            /\ UNCHANGED <<sessionKey, alert, inFlight>>
  /\ UNCHANGED <<startTime, tickVars>>
  /\ UNCHANGED <<regVars, checked, fwd, selectedKey, lockVars, clickVars>>
  /\ UNCHANGED <<everSelected, adderVars, now>>
  /\ UNCHANGED quitPc

\* the test of line 178 on the rounded duration
NeverTooShort(minutes) == FALSE
IsTooShort(minutes) == minutes = 0

\* addWorkLog, lines 171-189: "jira login", then the duration in minutes;
\* "0m" is refused, anything else is submitted with "jira worklog add"
WorkLogLogin(ok) ==
  /\ timerPc = "w171"
  /\ IF ~ok
     THEN TimerErr("could not login!") /\ UNCHANGED <<wlMinutes, nSubmit>>
     ELSE /\ wlMinutes' = RoundMinutes(d)
          /\ IF IsTooShort(RoundMinutes(d))
             THEN TimerErr(TooShort) /\ UNCHANGED nSubmit
             ELSE /\ timerPc' = "w184"
                  /\ nSubmit' = nSubmit + 1
                  /\ UNCHANGED <<timerStarted, timerTitle, d, wlKey, sessionKey>>
                  /\ UNCHANGED <<alert, inFlight>>
  /\ UNCHANGED <<startTime, tickVars>>
  /\ UNCHANGED <<regVars, checked, fwd, selectedKey, lockVars, clickVars>>
  /\ UNCHANGED <<everSelected, adderVars, now>>
  /\ UNCHANGED quitPc

\* addWorkLog, lines 190-193: "jira worklog add" returns
WorkLogSubmit(ok) ==
  /\ timerPc = "w184"
  /\ IF ok
     THEN TimerIdle
     ELSE TimerErr("could not add worklog") /\ UNCHANGED <<wlMinutes, nSubmit>>
  /\ UNCHANGED <<startTime, tickVars>>
  /\ UNCHANGED <<regVars, checked, fwd, selectedKey, lockVars, clickVars>>
  /\ UNCHANGED <<everSelected, adderVars, now>>
  /\ UNCHANGED quitPc

\* the user dismisses the error alert (line 205)
TimerErrShown ==
  /\ timerPc = "t205"
  /\ TimerIdle
  /\ UNCHANGED <<startTime, tickVars>>
  /\ UNCHANGED <<regVars, checked, fwd, selectedKey, lockVars, clickVars>>
  /\ UNCHANGED <<everSelected, adderVars, now>>
  /\ UNCHANGED quitPc

\* the test of line 210 on the selection read
NoIssueSelectedNever(key) == FALSE
NoIssueSelected(key) == key = NoKey

\* handleTimer, lines 210-216: with no issue selected, alert and continue;
\* otherwise the session starts: Timer.start (lines 137-140) takes the
\* start time, a new ticker and done channel, and starts a tick goroutine
TimerStart(key) ==
  /\ timerPc = "t210"
  /\ key \in SelReads
  /\ IF NoIssueSelected(key)
     THEN /\ alert' = [alert EXCEPT !["timer"] = "No Issue Selected"]
          /\ timerPc' = "t211"
          /\ UNCHANGED <<timerStarted, startTime, sessionKey, timerTitle>>
          /\ UNCHANGED <<tickVars, inFlight>>
     ELSE /\ tickAlive < MaxTickers
          /\ timerTitle' = "Stop Timer"
          /\ timerStarted' = TRUE
          /\ startTime' = now
          /\ ticker' = TRUE
          /\ tickPending' = FALSE
          /\ doneClosed' = FALSE
          /\ tickAlive' = tickAlive + 1
          /\ sessionKey' = key
          /\ timerPc' = "recv"
          /\ End("timer")
          /\ UNCHANGED <<trayTitle, alert>>
  /\ UNCHANGED <<d, wlKey, wlMinutes, nSubmit>>
  /\ UNCHANGED <<regVars, checked, fwd, selectedKey, lockVars, clickVars>>
  /\ UNCHANGED <<everSelected, adderVars, now>>
  /\ UNCHANGED quitPc

\* the user dismisses "No Issue Selected" (line 211); continue (line 212)
NoIssueShown ==
  /\ timerPc = "t211"
  /\ timerPc' = "recv"
  /\ alert' = [alert EXCEPT !["timer"] = ""]
  /\ End("timer")
  /\ UNCHANGED <<timerStarted, startTime, d, wlKey, wlMinutes, nSubmit>>
  /\ UNCHANGED <<sessionKey, timerTitle, tickVars>>
  /\ UNCHANGED <<regVars, checked, fwd, selectedKey, lockVars, clickVars>>
  /\ UNCHANGED <<everSelected, adderVars, now>>
  /\ UNCHANGED quitPc

\* --------------------------------------------------------- tick goroutine
\* lines 141-149: select on t.ticker.C and t.done
TickTitle ==
  /\ tickAlive > 0
  /\ tickPending
  /\ tickPending' = FALSE
  /\ trayTitle' = "elapsed"
  /\ UNCHANGED <<ticker, doneClosed, tickAlive>>
  /\ UNCHANGED <<regVars, checked, fwd, selectedKey, lockVars, clickVars>>
  /\ UNCHANGED <<everSelected, adderVars, timerVars, now, alert, inFlight>>
  /\ UNCHANGED quitPc

TickExit ==
  /\ tickAlive > 0
  /\ doneClosed
  /\ tickAlive' = tickAlive - 1
  /\ UNCHANGED <<ticker, tickPending, doneClosed, trayTitle>>
  /\ UNCHANGED <<regVars, checked, fwd, selectedKey, lockVars, clickVars>>
  /\ UNCHANGED <<everSelected, adderVars, timerVars, now, alert, inFlight>>
  /\ UNCHANGED quitPc

\* ------------------------------------------------------------------ clock
\* time passes; a running ticker puts a tick in its channel (of capacity 1)
AdvanceBy == {29, 30}

Advance(dt) ==
  /\ now + dt <= 30 * MaxHalfMinutes
  /\ now' = now + dt
  /\ tickPending' = (tickPending \/ ticker)
  /\ UNCHANGED <<ticker, doneClosed, tickAlive, trayTitle>>
  /\ UNCHANGED <<regVars, checked, fwd, selectedKey, lockVars, clickVars>>
  /\ UNCHANGED <<everSelected, adderVars, timerVars, alert, inFlight>>
  /\ UNCHANGED quitPc

\* ------------------------------------------------------------------- quit
\* the quit goroutine, lines 259-262: it receives the click on "Quit" and
\* calls systray.Quit(), which ends the event loop systray.Run is blocked in
QuitRecv ==
  /\ quitPc = "recv"
  /\ quitPc' = "q263"
  /\ UNCHANGED <<regVars, checked, fwd, selectedKey, lockVars, clickVars>>
  /\ UNCHANGED <<everSelected, adderVars, timerVars, tickVars, now, alert, inFlight>>

\* line 263: systray.Quit() has returned, "Finished quitting" is printed
\* and the goroutine ends
QuitDone ==
  /\ quitPc = "q263"
  /\ quitPc' = "done"
  /\ UNCHANGED <<regVars, checked, fwd, selectedKey, lockVars, clickVars>>
  /\ UNCHANGED <<everSelected, adderVars, timerVars, tickVars, now, alert, inFlight>>

\* what the return of main leaves of the goroutines: nothing
ExitLeavesLoops ==
  UNCHANGED <<fwd, clickPc, adderPc, timerPc, ticker, tickPending, tickAlive>>

ExitEndsLoops ==
  /\ fwd' = [it \in ItemIds |-> "none"]
  /\ clickPc' = "exit"
  /\ adderPc' = [p \in Adders |-> "exit"]
  /\ timerPc' = "exit"
  /\ ticker' = FALSE
  /\ tickPending' = FALSE
  /\ tickAlive' = 0

\* main, lines 127-128: once systray.Quit() has been called systray.Run
\* returns and main with it; the process ends with every goroutine, where
\* it stands
MainReturn ==
  /\ quitPc \in {"q263", "done"}
  /\ quitPc' = "exit"
  /\ ExitEndsLoops
  /\ UNCHANGED <<regVars, checked, selectedKey, lockVars, clickKey, everSelected>>
  /\ UNCHANGED <<adderKey, refreshList, refreshErr>>
  /\ UNCHANGED <<timerStarted, startTime, d, wlKey, wlMinutes, nSubmit>>
  /\ UNCHANGED <<sessionKey, timerTitle, doneClosed, trayTitle, now, alert, inFlight>>

\* ------------------------------------------------------- the specification
\* onReady has returned: NewJiraMenu's refresh (line 43) has added the
\* issues the tracker listed, one item each, and every loop is at its receive
Init ==
  /\ issueItems \in [Keys -> {0, 1}]
  /\ menuItems = {<<k, 1>> : k \in {x \in Keys : issueItems[x] = 1}}
  /\ checked = {}
  /\ fwd = [it \in ItemIds |-> IF it \in menuItems THEN "wait" ELSE "none"]
  /\ selectedKey = NoKey
  /\ readers = 0
  /\ writer = "none"
  /\ clickPc = "recv"
  /\ clickKey = NoKey
  /\ everSelected = FALSE
  /\ adderPc = [p \in Adders |-> "recv"]
  /\ adderKey = [p \in Adders |-> NoKey]
  /\ refreshList = <<>>
  /\ refreshErr = ""
  /\ timerPc = "recv"
  /\ timerStarted = FALSE
  /\ startTime = 0
  /\ d = 0
  /\ wlKey = NoKey
  /\ wlMinutes = 0
  /\ nSubmit = 0
  /\ sessionKey = NoKey
  /\ timerTitle = "Start Timer"
  /\ ticker = FALSE
  /\ tickPending = FALSE
  /\ doneClosed = FALSE
  /\ tickAlive = 0
  /\ trayTitle = ""
  /\ now = 0
  /\ alert = [l \in Loops |-> ""]
  /\ inFlight = [l \in Loops |-> 0]
  /\ quitPc = "recv"

\* the click loop and the forwarding goroutines
ClickNext ==
  \/ \E it \in ItemIds : ClickIssue(it)
  \/ \E it \in ItemIds : ClickRecv(it)
  \/ CheckClear
  \/ CheckMark
  \/ CheckSelect
  \/ CheckUnlock

\* the refresh loop and the add-issue loop, with a tracker that knows the
\* issues K
AdderNext(K) ==
  \/ \E p \in Adders : AddItemCheck(p)
  \/ \E p \in Adders : AddItemStore(p)
  \/ \E p \in Adders : AddItemUnlock(p)
  \/ RefreshRecv
  \/ \E l \in IssueLists(K), e \in {"", DecodeError} : GetIssues(l, e)
  \/ \E e \in ListErrors : GetIssues(<<>>, e)
  \/ RefreshLoop
  \/ AddRecv
  \/ \E key \in K \cup {NoKey} : AddDialog(key)
  \/ AddPresent
  \/ \E r \in ViewOutcomes : AddView(r)
  \/ AddReturn

\* the timer loop, up to the submission of a worklog
TimerShortNext ==
  \/ TimerRecv
  \/ StopTitle
  \/ \E key \in Keys \cup {NoKey, Torn} : WorkLogKey(key)
  \/ \E r \in DialogOutcomes : WorkLogDialog(r)
  \/ \E ok \in BOOLEAN : WorkLogLogin(ok)
  \/ TimerErrShown
  \/ \E key \in Keys \cup {NoKey, Torn} : TimerStart(key)
  \/ NoIssueShown

\* the timer loop
TimerNext == TimerShortNext \/ \E ok \in BOOLEAN : WorkLogSubmit(ok)

\* the tick goroutines and the clock
TickNext ==
  \/ TickTitle
  \/ TickExit
  \/ \E dt \in AdvanceBy : Advance(dt)

\* the quit goroutine and the end of the process
QuitNext ==
  \/ QuitRecv
  \/ QuitDone
  \/ MainReturn

\* The whole program.
Next == ClickNext \/ AdderNext(Keys) \/ TimerNext \/ TickNext \/ QuitNext

Spec == Init /\ [][Next]_vars

\* The whole program is too large to enumerate; it is checked under several
\* kinds of user.  Each specification below is Spec with some of the
\* user's clicks (and, in one, the passing of time) left out; every step the
\* program can then take is in it.  Only in SpecQuit does the user click
\* "Quit".
\*
\* SpecRegistry: the user never clicks the timer item.  The timer loop
\* writes nothing the click loop or the adders read, so what SpecRegistry
\* shows of issueItems, the menu items and selectedKey is what Spec shows.
SpecRegistry == Init /\ [][ClickNext \/ AdderNext(Keys)]_vars

\* SpecSession: the user never clicks "Add Issue" or "Refresh Assigned";
\* the issues are those of the first refresh.
SpecSession == Init /\ [][ClickNext \/ TimerNext \/ TickNext]_vars

\* SpecLoops: all four loops at work, with a tracker that knows one issue
\* and in so short a time that no tick comes and no session lasts half a
\* minute (no worklog is submitted).
OneKey == {1}

InitLoops == Init /\ \A k \in Keys \ OneKey : issueItems[k] = 0

SpecLoops ==
  InitLoops /\ [][ClickNext \/ AdderNext(OneKey) \/ TimerShortNext \/ TickExit]_vars

\* the step takes a click of the user on an issue, "Refresh Assigned", "Add
\* Issue" or the timer item
UserClick ==
  \/ \E it \in ItemIds : fwd[it] = "wait" /\ fwd'[it] = "send"
  \/ \E l \in Loops \ {"click"} : inFlight'[l] > inFlight[l]

\* the steps of A, with a user who clicks nothing more once "Quit" is clicked
MenuClosed(A) == A /\ (UserClick => quitPc = "recv")

\* SpecQuit: SpecLoops with a user who may click "Quit", once and last.
SpecQuit ==
  InitLoops /\ [][\/ MenuClosed(ClickNext)
                  \/ MenuClosed(AdderNext(OneKey))
                  \/ MenuClosed(TimerShortNext)
                  \/ TickExit
                  \/ QuitNext]_vars

\* the timer loop with a user who leaves the worklog dialog open: the loop
\* stays blocked in mack.Dialog (line 162)
TimerToDialog ==
  \/ TimerRecv
  \/ StopTitle
  \/ \E key \in Keys \cup {NoKey, Torn} : WorkLogKey(key)
  \/ \E key \in Keys \cup {NoKey, Torn} : TimerStart(key)
  \/ NoIssueShown
  \/ TickExit

\* the menu items a tracker that knows the issues of OneKey gives rise to
LiveItems == {it \in ItemIds : it[1] \in OneKey}

\* The scheduling the Go runtime gives the goroutines: a goroutine that can
\* run does run (the steps of check, the Unlock of addItem); a goroutine
\* blocked in RLock gets the lock once the writer unlocks, before the next
\* writer; the senders blocked on issueClickedCh are served in turn.  The
\* user, the dialogs and the tracker owe nothing.
FairLoops ==
  /\ WF_vars(CheckClear)
  /\ SF_vars(CheckMark)
  /\ WF_vars(CheckSelect)
  /\ WF_vars(CheckUnlock)
  /\ \A it \in LiveItems : SF_vars(ClickRecv(it))
  /\ \A p \in Adders : WF_vars(AddItemUnlock(p))

\* SpecLive: the click loop, the adders and that timer loop, with a tracker
\* that knows one issue, under that scheduling.
SpecLive ==
  /\ InitLoops
  /\ [][ClickNext \/ AdderNext(OneKey) \/ TimerToDialog]_vars
  /\ FairLoops

\* ================================================================ claims
\* the timer loop is inside addWorkLog, past the read of the selection
InWorkLog == timerPc \in {"w162", "w171", "w184"}

\* the running session was started on an issue key, and the key handed to
\* addWorkLog is one too (no read of the selection came out torn)
ProperSession == sessionKey \in Keys /\ (InWorkLog => wlKey \in Keys \cup {NoKey})

\* C1: the worklog of a session is submitted for the issue that was selected
\* when the session started, whatever is clicked while it runs.
C1_WorklogForStartIssue ==
  (timerPc = "w184" /\ ProperSession /\ wlKey \in Keys) => wlKey = sessionKey

\* C2: at most one of the four loops has an action in flight.
C2_OneActionInFlight == Cardinality({l \in Loops : inFlight[l] > 0}) <= 1

\* C2 as amended: each loop has at most one action in flight (it takes the
\* next click only when the action it runs has returned); the loops run
\* side by side.
C2_OneActionPerLoop == \A l \in Loops : inFlight[l] <= 1

C2_AllLoopsBusy == \A l \in Loops : inFlight[l] = 1

\* C3: a menu item is created at most once for an issue key, so the entry
\* of a key in issueItems is never replaced by a second item.
C3_FirstWriteWins ==
  \A k \in Keys : Cardinality({it \in menuItems : it[1] = k}) <= 1

\* C4: a write of the selection by check never stands side by side with a
\* read of it by the timer loop: the lock keeps the two apart.
C4_SelectionAccessExcluded ==
  ~(clickPc \in {"c81", "c88"} /\ timerPc \in {"t203", "t210"})

\* C5: once an issue has been selected, no step of the timer loop reports
\* "No Issue Selected" or hands an empty key to addWorkLog.
C5_NoHalfUpdatedSelection ==
  [][everSelected =>
       /\ alert'["timer"] = "No Issue Selected" => alert["timer"] = "No Issue Selected"
       /\ (InWorkLog' /\ ~InWorkLog) => wlKey' # NoKey]_vars

\* C6: a session stopped after 59 seconds is refused as too short and
\* nothing is submitted; after 60 seconds one minute is submitted, once.
C6_FiftyNineIsTooShort ==
  /\ (d = 59 /\ ProperSession) => (timerPc # "w184" /\ nSubmit = 0)
  /\ (d = 60 /\ timerPc = "w184") => (wlMinutes = 1 /\ nSubmit = 1)

\* C6 as amended: the duration is rounded to the nearest minute, so 59
\* seconds, like 60, are submitted as one minute, in one call, and never
\* refused; a session is refused as too short, with nothing submitted,
\* when it lasted under 30 seconds (29 seconds is).
C6_NearestMinute ==
  /\ (d \in {59, 60} /\ timerPc = "w184") => (wlMinutes = 1 /\ nSubmit = 1)
  /\ d \in {59, 60} => alert["timer"] # TooShort
  /\ d = 29 => (timerPc # "w184" /\ nSubmit = 0)
  /\ alert["timer"] = TooShort => (d < 30 /\ nSubmit = 0)

C6_FiftyNineSubmitted == timerPc = "w184" /\ d = 59 /\ wlMinutes = 1 /\ nSubmit = 1

\* C7: whenever a session's duration rounds to 0 minutes, the toggle that
\* stops it ends with an error shown to the user.
C7_ZeroAlwaysReported ==
  [][(timerStarted /\ ~timerStarted' /\ RoundMinutes(d) = 0 /\ ProperSession)
       => alert["timer"] # ""]_vars

\* C7 as amended: every "jira worklog add" call carries at least 1 minute,
\* the elapsed time to the nearest minute, and is made once; a duration
\* that rounds to 0 minutes is never submitted, and once the user has
\* confirmed the dialog and the login has succeeded it is reported as an
\* error (a cancelled dialog ends the toggle with no report).
C7_SubmitAtLeastOneMinute ==
  /\ timerPc = "w184" =>
       /\ wlMinutes >= 1
       /\ 60 * wlMinutes - 30 <= d
       /\ d < 60 * wlMinutes + 30
       /\ nSubmit = 1
  /\ nSubmit > 0 => d >= 30
  /\ (timerPc \in {"w184", "t205"} /\ d < 30) =>
       (timerPc = "t205" /\ alert["timer"] # "")

C7_ZeroMinutesRefused == timerPc = "t205" /\ alert["timer"] = TooShort /\ d = 29

\* the timer is left as it was: not started, no new ticker or tick
\* goroutine, the titles unchanged
IdleFrame ==
  UNCHANGED <<timerStarted, timerTitle, startTime, sessionKey, tickVars>>

C9_SelectionRegistered ==
  selectedKey = NoKey \/ (selectedKey \in Keys /\ issueItems[selectedKey] # 0)

C9_SelectedWhileAdding ==
  /\ selectedKey \in Keys
  /\ \E p \in Adders : adderPc[p] = "a66" /\ adderKey[p] # selectedKey

\* C10: whenever the click loop has finished a click, the check-marked
\* items are exactly the item issueItems holds for the selection (none when
\* the selection is empty), also after issues were added meanwhile.
C10_CheckmarkIsSelection ==
  clickPc = "recv" =>
    checked = IF selectedKey \in Keys
              THEN {<<selectedKey, issueItems[selectedKey]>>} ELSE {}

\* the keys of issueItems, and the keys addItem has ever created an item for
\* (the first refresh of NewJiraMenu included)
RegistryKeys == {k \in Keys : issueItems[k] # 0}
AddedKeys == {it[1] : it \in menuItems}

\* C11: no step removes a key of issueItems; after every step its keys are
\* the distinct keys ever added, as many as there are, and the key of an
\* addItem that has stored its item is among them; so it is after a refresh
\* whose list lacks a key the map holds.
C11_RegistryAppendOnly ==
  [][/\ RegistryKeys \subseteq RegistryKeys'
     /\ RegistryKeys' = AddedKeys'
     /\ Cardinality(RegistryKeys') = Cardinality(AddedKeys')
     /\ \A p \in Adders : adderPc'[p] = "a66" => adderKey'[p] \in RegistryKeys']_vars

\* refresh adds again a key the map holds, from a list that lacks another
\* key of the map
C11_ReAddOfKnownKey ==
  /\ adderPc["refresh"] = "a55"
  /\ adderKey["refresh"] \in RegistryKeys
  /\ \E k \in RegistryKeys : \A i \in DOMAIN refreshList : refreshList[i] # k

\* what addIssue leaves alone when it adds nothing
AddFrame == UNCHANGED <<regVars, checked, selectedKey, timerVars, tickVars>>

\* C12: addIssue given a key that issueItems holds goes from its test of
\* line 230 to the alert "Issue already there!" and from the alert back to
\* its receive, never by way of "jira login" or "jira view" (line 235), and
\* neither step changes the map, the menu items, the selection or the timer.
C12_AlreadyPresentFrame ==
  [][/\ (/\ adderPc["add"] = "d230"
         /\ adderPc'["add"] # "d230"
         /\ issueItems[adderKey["add"]] # 0)
        => (/\ adderPc'["add"] = "alert"
            /\ alert'["add"] = "Issue already there!"
            /\ AddFrame)
     /\ (alert["add"] = "Issue already there!" /\ adderPc'["add"] # "alert")
        => (adderPc'["add"] = "recv" /\ AddFrame)]_vars

C12_AlreadyThereShown ==
  /\ adderPc["add"] = "alert"
  /\ alert["add"] = "Issue already there!"
  /\ issueItems[adderKey["add"]] # 0

\* C13: a step in which a tracker call fails (getIssues in refresh, "jira
\* login" or "jira view" in addIssue, "jira login" in addWorkLog) raises an
\* alert of that loop and changes neither the map nor the selection, and a
\* refresh that failed adds no issue.
C13_FailureNotified ==
  [][/\ (adderPc["refresh"] = "r70" /\ refreshErr' # "")
        => (alert'["refresh"] # "" /\ refreshList' = <<>>
            /\ UNCHANGED <<regVars, selectedKey>>)
     /\ (adderPc["add"] = "d235" /\ adderPc'["add"] \notin {"d235", "a55"})
        => (alert'["add"] # "" /\ UNCHANGED <<regVars, selectedKey>>)
     /\ (timerPc = "w171" /\ timerPc' \notin {"w171", "w184"})
        => (alert'["timer"] # "" /\ UNCHANGED <<regVars, selectedKey>>)]_vars

\* an adder is inside addItem
InAddItem(p) == adderPc[p] \in {"a55", "a58", "a66"}

\* C14: the goroutine that holds the lock is at none of the blocking calls
\* (the write lock is held only between the store and the Unlock of addItem,
\* a read lock only inside check), and addItem runs only after the tracker
\* call of its action has returned with no error.
C14_NoBlockingUnderLock ==
  /\ writer # "none" => adderPc[writer] = "a66"
  /\ readers > 0 => (readers = 1 /\ clickPc \in {"c88", "c90"})
  /\ InAddItem("add") => alert["add"] = ""
  /\ InAddItem("refresh") => refreshErr = ""

\* Timer.stop has returned and Timer.start has not been called since
StopReturned == doneClosed /\ timerPc # "s157"

\* C15: from the return of Timer.stop to the next Timer.start the tray title
\* is the empty title stop has set: no tick goroutine sets it any more.
C15_TitleEmptyAfterStop == StopReturned => trayTitle = ""

\* C20: at most one tick goroutine is alive, and at the moment of a
\* Timer.start none is left of an earlier session.
C20_OneTickGoroutine ==
  /\ tickAlive <= 1
  /\ (timerStarted /\ timerPc = "recv") => tickAlive = 1

\* C17: Timer.stop is called only on a running Timer and from a started
\* session, Timer.start only on a stopped Timer and from an idle session,
\* with a selection read that is not empty; between two toggles the session
\* is started exactly when the Timer runs.
C17_IdleRunningAlternate ==
  [][/\ (timerPc' = "s157" /\ timerPc # "s157")
        => (timerStarted /\ ticker /\ ~ticker' /\ doneClosed')
     /\ tickAlive' > tickAlive
        => (/\ ~timerStarted /\ ~ticker
            /\ timerStarted' /\ ticker' /\ ~doneClosed'
            /\ sessionKey' # NoKey)
     /\ timerPc' = "recv" => (timerStarted' <=> ticker')]_vars

C17_StopOfLateSession ==
  /\ timerPc = "s157"
  /\ timerStarted
  /\ ~ticker
  /\ sessionKey \in Keys
  /\ startTime > 0

\* the timer loop is handling a toggle that found the session started
InStop == timerPc \in {"s157", "t203", "w162", "w171", "w184", "t205"}

\* C18: a toggle that found the session started ends only at the receive,
\* with the session idle, the item titled "Start Timer" and no alert left,
\* whatever addWorkLog did; an error is alerted from a state with no alert
\* and leads to the dismissal of that alert and from there to the receive
\* (no second try, at most one "jira worklog add"); the next session takes
\* its start time from the clock and a ticker and done channel of its own.
C18_StopEndsIdle ==
  [][/\ (InStop /\ ~InStop')
        => (/\ timerPc' = "recv"
            /\ ~timerStarted'
            /\ timerTitle' = "Start Timer"
            /\ alert'["timer"] = "")
     /\ (InStop' /\ alert'["timer"] # alert["timer"])
        => (alert["timer"] = "" /\ timerPc' = "t205")
     /\ timerPc = "t205" => timerPc' \in {"t205", "recv"}
     /\ nSubmit' <= 1
     /\ (timerStarted' /\ ~timerStarted)
        => (/\ startTime' = now
            /\ ticker' /\ ~tickPending' /\ ~doneClosed'
            /\ nSubmit' = 0 /\ d' = 0)]_vars

C18_SubmitFailedReported ==
  /\ timerPc = "t205"
  /\ alert["timer"] = "could not add worklog"
  /\ nSubmit = 1
  /\ timerStarted

\* the state of the registry, the selection and the timer
CoreState ==
  <<regVars, checked, selectedKey, timerStarted, startTime, timerTitle,
    ticker, doneClosed, trayTitle>>

\* every loop stands where it stood and has taken no new click
LoopsStand == UNCHANGED <<fwd, lockVars, clickVars, adderVars, timerPc, inFlight>>

C19_ClickIsApplied ==
  \A it \in LiveItems :
    (fwd[it] = "send") ~> (clickPc = "c90" /\ clickKey = it[1] /\ selectedKey = it[1])

\* a click is applied while the timer loop waits in the worklog dialog and
\* an adder waits for the write lock
C19_AppliedBesideDialog ==
  /\ clickPc = "c90"
  /\ clickKey \in Keys
  /\ selectedKey = clickKey
  /\ timerPc = "w162"
  /\ \E p \in Adders : adderPc[p] = "a58"

====
